---- MODULE Spec2Model ----
(***************************************************************************)
(* K-means++ with RUNS parallel trials (Homework4/HW4-k-means-plus-plus).  *)
(*                                                                         *)
(* Numbers.  Feature vectors are tuples of integers.  A real number x of   *)
(* the program is held as the integer x * Scale, where Scale is the least  *)
(* common multiple of 1..N, so that the mean of any non-empty subset of    *)
(* the N input points is exact.  Squared quantities are in units of        *)
(* 1/Scale^2.  numpy's nan is the value NaN (a scalar) or NaNVec (a        *)
(* centroid row), +inf is Inf; comparisons go through Lt, which is false   *)
(* on NaN as in IEEE 754.  norm() is rounded down to a multiple of         *)
(* 1/(Scale*NormScale); where the program only compares two norms, their   *)
(* squares are compared.                                                   *)
(*                                                                         *)
(* Indices.  Sequences start at 1: run r, centroid j and point x of the    *)
(* model are run r-1, centroid j-1 and point x-1 of the program.  The      *)
(* loop counters idx and i keep the program's values.                      *)
(***************************************************************************)
EXTENDS Integers, Sequences, FiniteSets, TLC

\* ------------------------------------------------------------------ bounds
\* the longest of the small datasets
MaxN == 3
\* K ranges over 1..MaxK, RUNS over 1..MaxRuns
MaxK == 3
MaxRuns == 2
\* the model runs at most this many Lloyd iterations
MaxIters == 6
\* np.random.random() returns a multiple of 1/UGrid
UGrid == 256
\* norm() has NormScale steps per 1/Scale
NormScale == 100

\* ------------------------------------------------------- special numbers
Inf == -1
NaN == -2
NaNVec == <<>>

IsNaNVec(v) == v = NaNVec

\* ------------------------------------------------------------ arithmetic
RECURSIVE Gcd(_, _)
Gcd(a, b) == IF b = 0 THEN a ELSE Gcd(b, a % b)

RECURSIVE Lcm1(_)
Lcm1(n) == IF n <= 1 THEN 1 ELSE LET l == Lcm1(n - 1) IN (l * n) \div Gcd(l, n)

\* Newton's iteration for the integer square root.  The next iterate y is bound
\* by a quantifier, so that it is a value when it is handed on.
RECURSIVE SqrtIter(_, _)
SqrtIter(n, x) ==
  CHOOSE r \in {IF y >= x THEN x ELSE SqrtIter(n, y) : y \in {(x + n \div x) \div 2}} : TRUE

\* the largest r with r * r <= n
ISqrt(n) ==
  CHOOSE r \in {IF m <= 1 THEN m ELSE SqrtIter(m, m) : m \in {n}} : TRUE

RECURSIVE SumSeq(_)
SumSeq(s) == IF Len(s) = 0 THEN 0 ELSE Head(s) + SumSeq(Tail(s))

\* x < y of IEEE 754 on numbers, Inf and NaN
Lt(x, y) ==
  IF x = NaN \/ y = NaN THEN FALSE
  ELSE IF x = Inf THEN FALSE
  ELSE IF y = Inf THEN TRUE
  ELSE x < y

\* np.min([a, b]) for one entry: nan propagates
MinNum(a, b) ==
  IF a = NaN \/ b = NaN THEN NaN
  ELSE IF Lt(b, a) THEN b ELSE a

\* --------------------------------------------------------------- vectors
VecSub(a, b) == [c \in 1..Len(a) |-> a[c] - b[c]]

SqNorm(v) == SumSeq([c \in 1..Len(v) |-> v[c] * v[c]])

\* norm(a - b)**2, nan when either side is nan
SqDist(a, b) == IF IsNaNVec(a) \/ IsNaNVec(b) THEN NaN ELSE SqNorm(VecSub(a, b))

\* norm(a - b) in units of 1/(Scale*NormScale), nan when either side is nan
NormDiff(a, b) ==
  IF IsNaNVec(a) \/ IsNaNVec(b) THEN NaN
  ELSE ISqrt(SqNorm(VecSub(a, b)) * NormScale * NormScale)

\* ---------------------------------------------------------------- inputs
\* the feature vectors the small datasets are drawn from
PointDomain == {<<0, 0>>, <<0, 1>>, <<2, 0>>}

RECURSIVE SeqsUpTo(_, _)
SeqsUpTo(S, n) ==
  IF n = 0 THEN {<<>>}
  ELSE LET shorter == SeqsUpTo(S, n - 1)
       IN shorter \cup {Append(s, x) : s \in {t \in shorter : Len(t) = n - 1}, x \in S}

SmallSets == SeqsUpTo(PointDomain, MaxN)

\* the scenario of the spec's section 8
FourPoints == <<<<0, 0>>, <<0, 1>>, <<10, 0>>, <<10, 1>>>>

\* five points on which Lloyd's iteration empties a cluster
FivePoints == <<<<0, 0>>, <<0, 1>>, <<0, 2>>, <<3, 0>>, <<3, 1>>>>

Datasets == SmallSets \cup {FourPoints, FivePoints}

\* four points on a line on which an iteration that moves the centroids by 1/3
\* is followed by one that moves them by 7/6; run with the threshold 0.5
LinePoints == <<<<0>>, <<1>>, <<2>>, <<4>>>>

LineThreshold == <<1, 2>>

\* converge_dist as <<numerator, denominator>>: 0.01, 0.1 (the notebook's) and 1.0
Thresholds == {<<1, 100>>, <<1, 10>>, <<1, 1>>}

\* values of np.random.randint(1000) handed to kmeans_init as `seed`: 0..MaxSeed
MaxSeed == 1

SeedArgs == 0..MaxSeed

\* kmeans_init is invoked at most this often by the seeding harness
MaxCalls == 2

\* values of np.random.random(): k/UGrid for k in 0..UGrid-1
Uniform == 0..(UGrid - 1)

\* weight sequences handed to choice on its own: up to MaxLenP weights
\* num/den with num in 0..MaxWeight and den in 0..MaxDen
MaxLenP == 3
MaxWeight == 2
MaxDen == 4

VARIABLES
  points,         \* local_data: the feature vectors of rdd, in order
  K, RUNS, converge_dist, seed,
  pc,             \* position of the main cell / kmeans / kmeans_init
  fault,          \* the exception that ended the program, or "none"
  draws,          \* number of values taken from np.random by kmeans_init
  centers, D, idx, i,                                  \* locals of kmeans_init
  k_points, local_cluster, new_points, temp_dist, iters, \* locals of kmeans
  centroids, group, cost, costArg,                     \* globals of the notebook
  calls, first,   \* invocations of kmeans_init so far, and what the first returned
  weights, random, chosen  \* choice called on its own: p, its draw, what it returned

vars == <<points, K, RUNS, converge_dist, seed, pc, fault, draws, centers, D, idx, i,
          k_points, local_cluster, new_points, temp_dist, iters,
          centroids, group, cost, costArg, calls, first, weights, random, chosen>>

N == Len(points)

Scale == Lcm1(N)

\* a feature vector of the dataset as the program's float vector
Vec(p) == [c \in 1..Len(p) |-> p[c] * Scale]

local_data == [x \in 1..N |-> Vec(points[x])]

\* 1.0, the value temp_dist is given before the while loop
One == Scale * NormScale

\* ------------------------------------------------------------------ choice
\* prob[i] of kmeans_init: entry x is Drow[x] / sum(Drow); every entry is nan
\* (0/0) when the sum is 0
ProbRow(Drow) == [num |-> Drow, den |-> SumSeq(Drow)]

\* the outcome of `assert(False)`
AssertFailed == 0

\* the for loop of choice: r is the running sum (numerator over p.den), k/UGrid
\* the value of np.random.random(); `r > random` is false when r is nan
\* ChoiceScan with `r >= random` for `r > random`
RECURSIVE ChoiceScan_Geq(_, _, _, _)
ChoiceScan_Geq(p, k, x, r) ==
  IF x > Len(p.num) THEN AssertFailed
  ELSE LET r2 == r + p.num[x]
       IN IF p.den # 0 /\ r2 * UGrid >= k * p.den THEN x
          ELSE ChoiceScan_Geq(p, k, x + 1, r2)

RECURSIVE ChoiceScan(_, _, _, _)
ChoiceScan(p, k, x, r) ==
  IF x > Len(p.num) THEN AssertFailed
  ELSE LET r2 == r + p.num[x]
       IN IF p.den # 0 /\ r2 * UGrid > k * p.den THEN x
          ELSE ChoiceScan(p, k, x + 1, r2)

\* choice(p) when np.random.random() returns k/UGrid: an index 1..len(p)
\* (the program's index plus one), or AssertFailed
choice(p, k) == ChoiceScan(p, k, 1, 0)

\* ------------------------------------------------------------- kmeans_init
\* np.zeros((RUNS, K, shape))
Zeros == [r \in 1..RUNS |-> [j \in 1..K |-> [c \in 1..Len(points[1]) |-> 0]]]

\* update_dist returning new_dist, without the minimum against dist
update_dist_NoMin(vec, dist, k) ==
  [r \in 1..RUNS |-> SqDist(vec, centers[r][k])]

\* update_dist(vec, dist, k): dist and the result have one entry per run
update_dist(vec, dist, k) ==
  [r \in 1..RUNS |-> MinNum(dist[r], SqDist(vec, centers[r][k]))]

\* np.array([update_dist(vec, D[:,x], idx) for x, vec in enumerate(local_data)]).T
UpdatedD(k) ==
  LET col(x) == update_dist(local_data[x], [r \in 1..RUNS |-> D[r][x]], k)
  IN [r \in 1..RUNS |-> [x \in 1..N |-> col(x)[r]]]

\* ------------------------------------------------------------- get_closest
\* the inner loop of get_closest for one centroid set; norms are compared by
\* their squares; the result is <<best, closest>>
\* ClosestScan with `temp_dist <= closest`: a tie goes to the last centroid
RECURSIVE ClosestScan_Leq(_, _, _, _, _)
ClosestScan_Leq(p, cset, j, best, closest) ==
  IF j > Len(cset) THEN <<best, closest>>
  ELSE LET temp_dist_ == SqDist(p, cset[j])
       IN IF Lt(temp_dist_, closest) \/ temp_dist_ = closest
          THEN ClosestScan_Leq(p, cset, j + 1, j, temp_dist_)
          ELSE ClosestScan_Leq(p, cset, j + 1, best, closest)

RECURSIVE ClosestScan(_, _, _, _, _)
ClosestScan(p, cset, j, best, closest) ==
  IF j > Len(cset) THEN <<best, closest>>
  ELSE LET temp_dist_ == SqDist(p, cset[j])
       IN IF Lt(temp_dist_, closest)
          THEN ClosestScan(p, cset, j + 1, j, temp_dist_)
          ELSE ClosestScan(p, cset, j + 1, best, closest)

\* get_closest(p, centers): per run the index (1..K) of the nearest centroid
get_closest(p, cs) == [r \in 1..Len(cs) |-> ClosestScan(p, cs[r], 1, 1, Inf)[1]]

\* ------------------------------------------------------------------ kmeans
\* the points x with local_cluster[r][x] = j
EachSet(cl, r, j) == {x \in 1..N : cl[r][x] = j}

RECURSIVE SumVecs(_, _)
SumVecs(S, d) ==
  IF S = {} THEN [c \in 1..d |-> 0]
  ELSE LET x == CHOOSE y \in S : TRUE
           rest == SumVecs(S \ {x}, d)
       IN [c \in 1..d |-> local_data[x][c] + rest[c]]

\* Mean dividing by the number of all points instead of the cluster's size
Mean_OverAll(S) ==
  IF S = {} THEN NaNVec
  ELSE LET sum == SumVecs(S, Len(points[1]))
       IN [c \in 1..Len(sum) |-> sum[c] \div N]

\* EachSet.mean(axis = 0): nan for an empty set
Mean(S) ==
  IF S = {} THEN NaNVec
  ELSE LET sum == SumVecs(S, Len(points[1]))
       IN [c \in 1..Len(sum) |-> sum[c] \div Cardinality(S)]

NewPoints(cl) == [r \in 1..RUNS |-> [j \in 1..K |-> Mean(EachSet(cl, r, j))]]

\* np.sum of a list: nan if any entry is nan
RECURSIVE SumNums(_)
SumNums(s) ==
  IF Len(s) = 0 THEN 0
  ELSE LET rest == SumNums(Tail(s))
       IN IF Head(s) = NaN \/ rest = NaN THEN NaN
          ELSE IF Head(s) = Inf \/ rest = Inf THEN Inf
          ELSE Head(s) + rest

\* np.max of a list: nan if any entry is nan
RECURSIVE MaxNums(_)
MaxNums(s) ==
  IF Len(s) = 1 THEN Head(s)
  ELSE LET rest == MaxNums(Tail(s))
       IN IF Head(s) = NaN \/ rest = NaN THEN NaN
          ELSE IF Lt(Head(s), rest) THEN rest ELSE Head(s)

\* the summed displacement of the K centroids of run r
RunShift(old, new, r) == SumNums([j \in 1..K |-> NormDiff(old[r][j], new[r][j])])

\* max over the runs of the summed displacement
Shift(old, new) == MaxNums([r \in 1..RUNS |-> RunShift(old, new, r)])

\* AboveThreshold written as `not (temp_dist <= converge_dist)`: true on nan
AboveThreshold_NotLeq(t, cd) ==
  IF t = NaN THEN TRUE ELSE t * cd[2] > cd[1] * One

\* temp_dist > converge_dist
AboveThreshold(t, cd) ==
  IF t = NaN THEN FALSE ELSE t * cd[2] > cd[1] * One

\* ---------------------------------------------------------------- get_cost
\* _get_cost(p, centers): closest**2 per run
PointCost(p, cs) == [r \in 1..Len(cs) |-> ClosestScan(p, cs[r], 1, 1, Inf)[2]]

\* get_cost(rdd, centers): the lambda handed to rdd.map reads the global
\* `centroids`, not the parameter
get_cost(rdd, cs) ==
  [r \in 1..Len(centroids) |->
     SumNums([x \in 1..Len(rdd) |-> PointCost(Vec(rdd[x]), centroids)[r]])]

\* ------------------------------------------------------------ the program
None == <<>>

InitWith(data, seeds, thresholds) ==
  /\ points \in data
  /\ K \in 1..MaxK
  /\ RUNS \in 1..MaxRuns
  /\ converge_dist \in thresholds
  /\ seed \in seeds
  /\ pc = "kmeans_init"
  /\ fault = "none"
  /\ draws = 0
  /\ centers = None /\ D = None /\ idx = 0 /\ i = 0
  /\ k_points = None /\ local_cluster = None /\ new_points = None
  /\ temp_dist = 0 /\ iters = 0
  /\ centroids = None /\ group = None /\ cost = None /\ costArg = None
  /\ calls = 1 /\ first = None
  /\ weights = None /\ random = 0 /\ chosen = None

\* the main cell has called kmeans, which is about to run kmeans_init
Init ==
  \/ InitWith(Datasets, {0}, Thresholds)
  \/ InitWith({LinePoints}, {0}, {LineThreshold})

kmeansLocals == <<k_points, local_cluster, new_points, temp_dist, iters>>
globals == <<centroids, group, cost, costArg>>
config == <<points, K, RUNS, converge_dist, seed>>
choiceCall == <<weights, random, chosen>>
harness == <<calls, first, choiceCall>>

\* kmeans_init up to the for loop: shape, centers, the RUNS uniform picks, D
InitSample ==
  /\ pc = "kmeans_init"
  /\ IF N = 0
     THEN /\ pc' = "fault"
          /\ fault' = "IndexError"
          /\ UNCHANGED <<draws, centers, D, idx, i>>
     ELSE \E sample \in [1..RUNS -> 1..N] :
            /\ centers' = [r \in 1..RUNS |->
                             [Zeros[r] EXCEPT ![1] = local_data[sample[r]]]]
            /\ D' = [r \in 1..RUNS |-> [x \in 1..N |-> Inf]]
            /\ draws' = draws + RUNS
            /\ idx' = 0
            /\ i' = 0
            /\ pc' = IF 0 < K - 1 THEN "round" ELSE "init_return"
            /\ fault' = fault
  /\ UNCHANGED <<config, kmeansLocals, globals, harness>>

\* one round of the for loop, up to the loop over the runs: D and prob
InitUpdateDist ==
  /\ pc = "round"
  /\ D' = UpdatedD(idx + 1)
  /\ i' = 0
  /\ pc' = "choose"
  /\ UNCHANGED <<config, fault, draws, centers, idx, kmeansLocals, globals, harness>>

\* InitChoose with one draw per round, shared by the runs of the round
InitChoose_SharedDraw ==
  /\ pc = "choose"
  /\ \E ind \in {choice(ProbRow(D[i + 1]), k) : k \in Uniform} :
          /\ draws' = draws + (IF i = 0 THEN 1 ELSE 0)
          /\ IF ind = AssertFailed
             THEN /\ pc' = "fault"
                  /\ fault' = "AssertionError"
                  /\ UNCHANGED <<centers, idx, i>>
             ELSE /\ centers' = [centers EXCEPT ![i + 1][idx + 2] = local_data[ind]]
                  /\ fault' = fault
                  /\ IF i + 1 < RUNS
                     THEN /\ i' = i + 1
                          /\ idx' = idx
                          /\ pc' = "choose"
                     ELSE /\ i' = i
                          /\ idx' = idx + 1
                          /\ pc' = IF idx + 1 < K - 1 THEN "round" ELSE "init_return"
  /\ UNCHANGED <<config, D, kmeansLocals, globals, harness>>

\* one pass of `for i in range(RUNS)`: a call of choice and the store
InitChoose ==
  /\ pc = "choose"
  /\ \E ind \in {choice(ProbRow(D[i + 1]), k) : k \in Uniform} :
          /\ draws' = draws + 1
          /\ IF ind = AssertFailed
             THEN /\ pc' = "fault"
                  /\ fault' = "AssertionError"
                  /\ UNCHANGED <<centers, idx, i>>
             ELSE /\ centers' = [centers EXCEPT ![i + 1][idx + 2] = local_data[ind]]
                  /\ fault' = fault
                  /\ IF i + 1 < RUNS
                     THEN /\ i' = i + 1
                          /\ idx' = idx
                          /\ pc' = "choose"
                     ELSE /\ i' = i
                          /\ idx' = idx + 1
                          /\ pc' = IF idx + 1 < K - 1 THEN "round" ELSE "init_return"
  /\ UNCHANGED <<config, D, kmeansLocals, globals, harness>>

\* kmeans_init returns centers; kmeans sets up its loop
KmeansStart ==
  /\ pc = "init_return"
  /\ k_points' = centers
  /\ temp_dist' = One
  /\ new_points' = None
  /\ iters' = 0
  /\ pc' = "while"
  /\ UNCHANGED <<config, fault, draws, centers, D, idx, i, local_cluster, globals, harness>>

\* `while temp_dist > converge_dist`, and on exit `return k_points` into centroids
WhileTest ==
  /\ pc = "while"
  /\ IF AboveThreshold(temp_dist, converge_dist)
     THEN /\ pc' = "assign"
          /\ UNCHANGED centroids
     ELSE /\ pc' = "returned"
          /\ centroids' = k_points
  /\ UNCHANGED <<config, fault, draws, centers, D, idx, i, kmeansLocals,
                 group, cost, costArg, harness>>

\* LloydAssign storing each mean into k_points as soon as it is computed
LloydAssign_InPlace ==
  /\ pc = "assign"
  /\ local_cluster' = [r \in 1..RUNS |->
                         [x \in 1..N |-> get_closest(local_data[x], k_points)[r]]]
  /\ new_points' = NewPoints(local_cluster')
  /\ k_points' = new_points'
  /\ pc' = "shift"
  /\ UNCHANGED <<config, fault, draws, centers, D, idx, i, temp_dist, iters,
                 globals, harness>>

\* the nearest centroids of every point and the mean of every cluster
LloydAssign ==
  /\ pc = "assign"
  /\ local_cluster' = [r \in 1..RUNS |->
                         [x \in 1..N |-> get_closest(local_data[x], k_points)[r]]]
  /\ new_points' = NewPoints(local_cluster')
  /\ pc' = "shift"
  /\ UNCHANGED <<config, fault, draws, centers, D, idx, i, k_points, temp_dist, iters,
                 globals, harness>>

\* temp_dist and iters
LloydShift ==
  /\ pc = "shift"
  /\ iters < MaxIters
  /\ temp_dist' = Shift(k_points, new_points)
  /\ iters' = iters + 1
  /\ pc' = "update"
  /\ UNCHANGED <<config, fault, draws, centers, D, idx, i, k_points, local_cluster,
                 new_points, globals, harness>>

\* `for ((idx, j), p) in new_points.items(): k_points[idx][j] = p`
LloydUpdate ==
  /\ pc = "update"
  /\ k_points' = [r \in 1..RUNS |-> [j \in 1..K |-> new_points[r][j]]]
  /\ pc' = "while"
  /\ UNCHANGED <<config, fault, draws, centers, D, idx, i, local_cluster, new_points,
                 temp_dist, iters, globals, harness>>

\* group = rdd.mapValues(lambda p: get_closest(p, centroids)).collect()
MainGroup ==
  /\ pc = "returned"
  /\ group' = [x \in 1..N |-> get_closest(local_data[x], centroids)]
  /\ pc' = "grouped"
  /\ UNCHANGED <<config, fault, draws, centers, D, idx, i, kmeansLocals,
                 centroids, cost, costArg, harness>>

\* the collections a caller hands to get_cost: the notebook's `centroids`, or a
\* collection whose every slot is one input point
CostArgs == {centroids} \cup {[r \in 1..RUNS |-> [j \in 1..K |-> local_data[x]]] : x \in 1..N}

\* cost = get_cost(rdd, centers)
GetCost ==
  /\ pc = "grouped"
  /\ \E cs \in CostArgs :
       /\ costArg' = cs
       /\ cost' = get_cost(points, cs)
  /\ pc' = "done"
  /\ UNCHANGED <<config, fault, draws, centers, D, idx, i, kmeansLocals,
                 centroids, group, harness>>

Next ==
  \/ InitSample
  \/ InitUpdateDist
  \/ InitChoose
  \/ KmeansStart
  \/ WhileTest
  \/ LloydAssign
  \/ LloydShift
  \/ LloydUpdate
  \/ MainGroup
  \/ GetCost

Spec == Init /\ [][Next]_vars

\* --------------------------------------------------- the seeding harness
\* a caller of kmeans_init that invokes it again with the same rdd, K, RUNS and
\* seed, whatever np.random has become in between
SeedAgain ==
  /\ pc = "init_return"
  /\ calls < MaxCalls
  /\ calls' = calls + 1
  /\ first' = IF calls = 1 THEN centers ELSE first
  /\ centers' = None /\ D' = None /\ idx' = 0 /\ i' = 0
  /\ draws' = 0
  /\ pc' = "kmeans_init"
  /\ UNCHANGED <<config, fault, kmeansLocals, globals, choiceCall>>

InitSeed == InitWith(SmallSets, SeedArgs, {<<1, 10>>})

NextSeed ==
  \/ InitSample
  \/ InitUpdateDist
  \/ InitChoose
  \/ SeedAgain

SpecSeed == InitSeed /\ [][NextSeed]_vars

\* ------------------------------------------------------ choice on its own
\* the sequences p a caller can hand to choice: weights num[x]/den; den = 0
\* stands for the row of nan that 0/0 gives, so it comes with zero numerators
WeightRows ==
  {w \in [num : SeqsUpTo(0..MaxWeight, MaxLenP) \ {<<>>}, den : 0..MaxDen] :
     w.den # 0 \/ SumSeq(w.num) = 0}

InitChoice ==
  /\ points = <<>> /\ K = 1 /\ RUNS = 1 /\ converge_dist = <<1, 10>> /\ seed = 0
  /\ pc = "choice"
  /\ fault = "none"
  /\ draws = 0
  /\ centers = None /\ D = None /\ idx = 0 /\ i = 0
  /\ k_points = None /\ local_cluster = None /\ new_points = None
  /\ temp_dist = 0 /\ iters = 0
  /\ centroids = None /\ group = None /\ cost = None /\ costArg = None
  /\ calls = 1 /\ first = None
  /\ weights \in WeightRows /\ random = 0 /\ chosen = None

\* choice(p): the draw, the scan, and the return or the failed assert
ChoiceCall ==
  /\ pc = "choice"
  /\ \E k \in Uniform :
       /\ random' = k
       /\ draws' = draws + 1
       /\ IF choice(weights, k) = AssertFailed
          THEN /\ pc' = "fault"
               /\ fault' = "AssertionError"
               /\ UNCHANGED chosen
          ELSE /\ pc' = "chosen"
               /\ chosen' = choice(weights, k)
               /\ UNCHANGED fault
  /\ UNCHANGED <<config, centers, D, idx, i, kmeansLocals, globals, calls, first, weights>>

NextChoice == ChoiceCall

SpecChoice == InitChoice /\ [][NextChoice]_vars

\* kmeans is at a statement of its loop that it can execute (the model holds
\* LloydShift back once iters has reached MaxIters)
KmeansRunning ==
  /\ pc \in {"while", "assign", "shift", "update"}
  /\ pc = "shift" => iters < MaxIters

\* kmeans executes that statement: as a step of Next this is a step of
\* WhileTest, LloydAssign, LloydShift or LloydUpdate, each of which moves pc
KmeansStep ==
  /\ KmeansRunning
  /\ pc' \in {"while", "assign", "shift", "update", "returned"}
  /\ pc' # pc

\* the notebook is a sequential program: kmeans, once in its loop, goes on to
\* its next statement
FairSpec == Spec /\ WF_pc(KmeansStep)

\* ------------------------------------------------------------ properties
\* the sum over all points of the squared distance to the nearest centroid of
\* each run of the collection cs
NearestSq(p, cset) ==
  LET ds == {SqDist(p, cset[j]) : j \in 1..Len(cset)} \ {NaN}
  IN IF ds = {} THEN Inf ELSE CHOOSE d \in ds : \A e \in ds : d <= e

CostOf(cs) ==
  [r \in 1..Len(cs) |-> SumNums([x \in 1..N |-> NearestSq(local_data[x], cs[r])])]

AllIdentical == \A x \in 1..N : points[x] = points[1]

AllDistinct == \A x, y \in 1..N : x # y => points[x] # points[y]

Returned == pc \in {"returned", "grouped", "done"}

\* C1: after any number of Lloyd iterations every centroid of every run in
\* k_points is a defined vector; the undefined mean of an empty cluster is never
\* written into k_points.
C1_NoUndefinedCentroid ==
  \A r \in DOMAIN k_points : \A j \in DOMAIN k_points[r] : ~IsNaNVec(k_points[r][j])

\* C2: the second invocation of kmeans_init with the same points, K, RUNS and
\* seed returns the collection the first invocation returned.
C2_SeedDeterminesResult ==
  (pc = "init_return" /\ calls = 2) => centers = first

\* C3: kmeans returns only directly after an iteration whose metric is a number
\* <= converge_dist; at least one iteration has run.
C3_ReturnsOnlyAfterConvergedIteration ==
  pc = "returned" =>
    /\ iters >= 1
    /\ temp_dist # NaN
    /\ temp_dist * converge_dist[2] <= converge_dist[1] * One

\* C4: with N < K, kmeans_init ends in a fault before it fills a centroid slot
\* or takes a random draw, and returns no collection.
C4_InsufficientDataBeforeAnyDraw ==
  N < K =>
    /\ pc \in {"kmeans_init", "fault"}
    /\ draws = 0
    /\ centers = None

\* C5: with N >= K > 0, kmeans_init returns, and what it returns has RUNS sets
\* of K vectors, each the feature vector of an input point.
C5_SeedReturnsFullCollection ==
  (N >= K /\ K > 0) =>
    /\ pc # "fault"
    /\ pc = "init_return" =>
         /\ Len(centers) = RUNS
         /\ \A r \in 1..RUNS :
              /\ Len(centers[r]) = K
              /\ \A j \in 1..K : \E x \in 1..N : centers[r][j] = local_data[x]

\* C6: when all N points are identical (N >= K >= 2), kmeans_init does not
\* crash: every call of choice returns an index.
C6_IdenticalPointsSeedWithoutCrash ==
  (N >= K /\ K >= 2 /\ AllIdentical) => fault # "AssertionError"

\* C7: get_cost(points, centers) is, per run of the collection passed to it,
\* the sum of the squared distances of the points to their nearest centroid in
\* that collection, and it is non-negative.
C7_CostIsOfItsArgument ==
  pc = "done" =>
    /\ cost = CostOf(costArg)
    /\ \A r \in DOMAIN cost : cost[r] >= 0

\* C8: once kmeans is at its while loop it eventually returns.
C8_RefineReturns == (pc = "while") ~> (pc = "returned")

C8_Witness == pc = "returned" /\ N >= K /\ iters >= 3 /\ temp_dist = 0

\* C9: when K = N and the points are distinct, seeding does not fail, and in the
\* returned collection every input point is one of the K centroids of every run
\* and get_cost is 0 for every run.
C9_EachPointItsOwnCentroid ==
  (N = K /\ AllDistinct) =>
    /\ fault = "none"
    /\ Returned =>
         \A r \in 1..RUNS :
           /\ \A x \in 1..N : \E j \in 1..K : centroids[r][j] = local_data[x]
           /\ get_cost(points, centroids)[r] = 0

C9_Witness ==
  /\ N = K /\ AllDistinct /\ K = MaxK /\ RUNS = MaxRuns
  /\ pc = "done" /\ iters >= 1
  /\ cost = [r \in 1..RUNS |-> 0]

\* the scenario of C10
FourPointsScenario ==
  /\ points = FourPoints /\ K = 2 /\ RUNS = 1 /\ converge_dist = <<1, 100>>

\* the sum of the squared distances of the points of cluster j of run r to its
\* centroid
ClusterCost(r, j) ==
  SumNums([x \in 1..N |->
             IF get_closest(local_data[x], centroids)[r] = j
             THEN SqDist(local_data[x], centroids[r][j]) ELSE 0])

\* centroids (0, 0.5) and (10, 0.5), cost 0.5 per cluster
FourPointsOptimum ==
  /\ {centroids[1][1], centroids[1][2]} = {<<0, Scale \div 2>>, <<10 * Scale, Scale \div 2>>}
  /\ \A j \in 1..2 : 2 * ClusterCost(1, j) = Scale * Scale

\* the two seeded centroids of run 1 (kept in centers) come from different pairs
SeededAcross == centers[1][1][1] # centers[1][2][1]

\* C10 as claimed: in the scenario kmeans returns (0, 0.5) and (10, 0.5) for
\* every seeding.
C10_OptimumForEverySeeding ==
  (FourPointsScenario /\ Returned) => FourPointsOptimum

\* C10 as amended: in the scenario kmeans returns (0, 0.5) and (10, 0.5) when
\* the seeding took one centroid with first coordinate 0 and one with 10, and
\* (5, 0) and (5, 1) when it took both from the same pair.
C10_OptimumWhenSeededAcross ==
  (FourPointsScenario /\ Returned) =>
    IF SeededAcross THEN FourPointsOptimum
    ELSE {centroids[1][1], centroids[1][2]} = {<<5 * Scale, 0>>, <<5 * Scale, Scale>>}

C10_Witness ==
  /\ FourPointsScenario /\ pc = "done" /\ SeededAcross /\ iters = 2
  /\ FourPointsOptimum

\* b is the lowest index among the centroids of cset nearest to p (a centroid
\* that is nan has no distance)
IsFirstNearest(p, cset, b) ==
  /\ b \in 1..Len(cset)
  /\ SqDist(p, cset[b]) # NaN
  /\ \A j \in 1..Len(cset) :
       LET d == SqDist(p, cset[j])
       IN d = NaN \/ (IF j < b THEN d > SqDist(p, cset[b]) ELSE d >= SqDist(p, cset[b]))

\* C11: every use of get_closest (the assignment of a Lloyd iteration, the
\* final grouping) gives each point one index in 1..K per run, the lowest index
\* among the nearest centroids of that run, and leaves points and centroids as
\* they were.
C11_NearestIsFirstMinimum ==
  [][ /\ pc = "assign" =>
          /\ DOMAIN local_cluster' = 1..RUNS
          /\ \A r \in 1..RUNS :
               /\ DOMAIN local_cluster'[r] = 1..N
               /\ \A x \in 1..N : IsFirstNearest(local_data[x], k_points[r], local_cluster'[r][x])
          /\ k_points' = k_points /\ points' = points
     /\ pc = "returned" =>
          /\ DOMAIN group' = 1..N
          /\ \A x \in 1..N :
               /\ DOMAIN group'[x] = 1..RUNS
               /\ \A r \in 1..RUNS : IsFirstNearest(local_data[x], centroids[r], group'[x][r])
          /\ centroids' = centroids /\ points' = points
    ]_vars

\* a point assigned to the lower of two equally near centroids
C11_Witness ==
  /\ pc = "shift"
  /\ \E r \in 1..RUNS, x \in 1..N : \E j \in 1..K :
       /\ local_cluster[r][x] < j
       /\ SqDist(local_data[x], k_points[r][j])
            = SqDist(local_data[x], k_points[r][local_cluster[r][x]])

\* p[0] + ... + p[x-1] > random, for the weights w and the draw k/UGrid
CumulativeExceeds(w, k, x) ==
  w.den # 0 /\ SumSeq(SubSeq(w.num, 1, x)) * UGrid > k * w.den

\* C12: for every weight sequence of length >= 1 and every draw, choice
\* returns the smallest index whose cumulative weight exceeds the draw; when
\* no index does, it ends in the failed assert and returns no index.
C12_ChoiceIsFirstExceeding ==
  /\ pc = "chosen" =>
       /\ chosen \in 1..Len(weights.num)
       /\ CumulativeExceeds(weights, random, chosen)
       /\ \A x \in 1..(chosen - 1) : ~CumulativeExceeds(weights, random, x)
  /\ pc = "fault" =>
       /\ fault = "AssertionError"
       /\ chosen = None
       /\ \A x \in 1..Len(weights.num) : ~CumulativeExceeds(weights, random, x)
  /\ pc = "choice" => chosen = None /\ fault = "none"

\* choice returned an index past the first although the draw was positive
C12_Witness ==
  /\ pc = "chosen"
  /\ chosen > 1
  /\ random > 0
  /\ weights.num[1] > 0

\* choice ran off the end of weights that are numbers
C12_WitnessFailure ==
  /\ pc = "fault"
  /\ weights.den # 0
  /\ SumSeq(weights.num) > 0

\* one further Lloyd iteration on the returned centroids: its assignment and
\* its metric
FurtherCluster ==
  [r \in 1..RUNS |-> [x \in 1..N |-> get_closest(local_data[x], centroids)[r]]]

FurtherShift == Shift(centroids, NewPoints(FurtherCluster))

\* kmeans returned after at least one iteration and every centroid is a vector
ReturnedConverged ==
  /\ pc = "returned"
  /\ iters >= 1
  /\ \A r \in 1..RUNS, j \in 1..K : ~IsNaNVec(centroids[r][j])

\* C13 (as stated): one further Lloyd iteration on the centroids kmeans
\* returned gives a metric that is at most the threshold.
C13_FurtherIterationWithinThreshold ==
  ReturnedConverged =>
    FurtherShift # NaN /\ ~AboveThreshold(FurtherShift, converge_dist)

\* the points whose first nearest centroid of run r is centroid j
NearestSet(r, j) == {x \in 1..N : IsFirstNearest(local_data[x], centroids[r], j)}

\* every returned centroid is the mean of the points nearest to it
IsFixedPoint ==
  \A r \in 1..RUNS, j \in 1..K :
    /\ NearestSet(r, j) # {}
    /\ ~IsNaNVec(centroids[r][j])
    /\ \A c \in 1..Len(points[1]) :
         centroids[r][j][c] * Cardinality(NearestSet(r, j))
           = SumVecs(NearestSet(r, j), Len(points[1]))[c]

\* C13 (amended): when the last iteration of kmeans measured the shift 0, the
\* returned centroids are each the mean of their nearest points, and one
\* further Lloyd iteration gives the metric 0.
C13_FurtherIterationAtFixedPoint ==
  (pc = "returned" /\ iters >= 1 /\ temp_dist = 0) =>
    IsFixedPoint /\ FurtherShift = 0

\* kmeans moved the seeds, then measured the shift 0 and returned
C13_Witness ==
  /\ pc = "returned"
  /\ iters >= 2
  /\ temp_dist = 0
  /\ centroids # centers

\* cl assigns every point, in every run, to its first nearest centroid of cs
AssignedFrom(cl, cs) ==
  \A r \in 1..RUNS, x \in 1..N : IsFirstNearest(local_data[x], cs[r], cl[r][x])

\* np holds, for every run and cluster of cl, the mean of the cluster's points
\* (nan for a cluster without points)
MeansOf(np, cl) ==
  \A r \in 1..RUNS, j \in 1..K :
    IF EachSet(cl, r, j) = {} THEN IsNaNVec(np[r][j])
    ELSE \A c \in 1..Len(points[1]) :
           np[r][j][c] * Cardinality(EachSet(cl, r, j))
             = SumVecs(EachSet(cl, r, j), Len(points[1]))[c]

\* C14: in one Lloyd iteration the assignments, the means and the shift are all
\* computed from k_points as it stood when the iteration began; k_points is
\* written only after the shift is computed, and then every one of its
\* RUNS x K centroids is replaced before the loop test or the return reads it.
C14_SynchronousUpdate ==
  [][ /\ pc = "assign" =>
           /\ k_points' = k_points
           /\ AssignedFrom(local_cluster', k_points)
           /\ MeansOf(new_points', local_cluster')
      /\ pc = "shift" =>
           /\ k_points' = k_points
           /\ new_points' = new_points
           /\ temp_dist' = Shift(k_points, new_points)
      /\ pc = "update" =>
           /\ DOMAIN k_points' = 1..RUNS
           /\ \A r \in 1..RUNS :
                /\ DOMAIN k_points'[r] = 1..K
                /\ \A j \in 1..K : k_points'[r][j] = new_points[r][j]
           /\ pc' = "while"
      /\ pc = "while" =>
           /\ k_points' = k_points
           /\ pc' \in {"assign", "returned"}
           /\ pc' = "returned" => centroids' = k_points
    ]_vars

\* an iteration has moved centroids of two runs and all are replaced
C14_Witness ==
  /\ pc = "while"
  /\ iters >= 1
  /\ RUNS = 2
  /\ \A r \in 1..RUNS : k_points[r] # centers[r]
  /\ k_points = new_points

\* kmeans_init is running or has failed
InKmeansInit == pc \in {"kmeans_init", "round", "choose", "fault"}

\* the number of draws taken so far, by the position of kmeans_init
DrawsByPosition ==
  /\ pc = "kmeans_init" => draws = 0
  /\ pc = "round" => idx < K - 1 /\ draws = RUNS + RUNS * idx
  /\ pc = "choose" => idx < K - 1 /\ i < RUNS /\ draws = RUNS + RUNS * idx + i
  /\ (~InKmeansInit /\ N >= K) => draws = RUNS + RUNS * (K - 1)
  /\ K = 1 => pc \notin {"round", "choose"} /\ draws \in {0, RUNS}

\* C15: a call of kmeans_init with N >= K >= 1 that completes has taken
\* RUNS + RUNS x (K-1) draws: RUNS for the uniform picks, then one per run per
\* round, in run order; with K = 1 it takes RUNS draws and runs no weighted
\* round.
C15_DrawsConsumed ==
  [][ /\ DrawsByPosition'
      /\ (pc = "kmeans_init" /\ pc' # "fault") => draws' = draws + RUNS
      /\ pc = "round" => draws' = draws
      /\ pc = "choose" =>
           /\ draws' = draws + 1
           /\ i = (draws - RUNS) % RUNS
           /\ idx = (draws - RUNS) \div RUNS
           /\ pc' # "fault" =>
                \A r \in 1..RUNS, j \in 1..K :
                  (r # i + 1 \/ j # idx + 2) => centers'[r][j] = centers[r][j]
      /\ ~InKmeansInit => draws' = draws
    ]_vars

\* kmeans_init completed two weighted rounds for two runs
C15_Witness ==
  /\ pc = "init_return"
  /\ K = 3 /\ RUNS = 2 /\ N >= K
  /\ draws = 6

\* a is a number and at most b, where b is a number or +infinity
AtMost(a, b) == a \notin {NaN, Inf} /\ (b = Inf \/ (b # NaN /\ a <= b))

\* d is the least squared distance from p to the centroids 1..n of cset
IsLeastSqDist(d, p, cset, n) ==
  /\ \E j \in 1..n : d = SqDist(p, cset[j])
  /\ \A j \in 1..n : AtMost(d, SqDist(p, cset[j]))

\* C16: D starts at +infinity; round idx sets D[r][x] to the smaller of
\* D[r][x] and the squared distance from x to the centroid run r received in
\* the previous round; after the round every entry is non-negative, no larger
\* than before, and the least squared distance from x to the centroids of run r
\* chosen so far. Nothing else writes D.
C16_DistanceCache ==
  [][ /\ (pc = "kmeans_init" /\ pc' # "fault") =>
           D' = [r \in 1..RUNS |-> [x \in 1..N |-> Inf]]
      /\ pc = "round" =>
           /\ DOMAIN D' = 1..RUNS
           /\ \A r \in 1..RUNS :
                /\ DOMAIN D'[r] = 1..N
                /\ \A x \in 1..N :
                     LET new_dist == SqDist(local_data[x], centers[r][idx + 1])
                     IN /\ D'[r][x] \in {D[r][x], new_dist}
                        /\ AtMost(D'[r][x], D[r][x])
                        /\ AtMost(D'[r][x], new_dist)
                        /\ D'[r][x] >= 0
                        /\ IsLeastSqDist(D'[r][x], local_data[x], centers[r], idx + 1)
      /\ pc \notin {"kmeans_init", "round"} => D' = D
    ]_vars

\* in the second round an entry kept its value although the newest centroid
\* is farther away, and another entry went down
C16_Witness ==
  /\ pc = "choose"
  /\ idx = 1
  /\ \E r \in 1..RUNS :
       /\ \E x \in 1..N : /\ D[r][x] > 0
                          /\ D[r][x] < SqDist(local_data[x], centers[r][2])
       /\ \E x \in 1..N : /\ D[r][x] = SqDist(local_data[x], centers[r][2])
                          /\ D[r][x] < SqDist(local_data[x], centers[r][1])

====
